---- MODULE Spec2Model ----
(***************************************************************************)
(* Model of AppComponent (app.component.ts) of the Zawgyi Unicode          *)
(* Converter PWA: the usage classifier, the first-navigation decision of   *)
(* the router.events subscriber, the share eligibility predicate and the   *)
(* dark-theme resolver, over the key/value store of CacheService.          *)
(*                                                                         *)
(* A store entry is an option: <<>> when the key is absent (getItem gives  *)
(* null) and <<v>> when the key holds v.  Strings that the code parses or  *)
(* formats (the usage counts) are sequences of characters; the other       *)
(* strings ('true', 'dark', page types) are only compared and are TLA+     *)
(* strings.                                                                *)
(***************************************************************************)
EXTENDS Integers, Sequences, FiniteSets, TLC

VARIABLES
    cache,                \* CacheService: key -> <<>> | <<value>>
    config,               \* ConfigService values: colorMode, sponsorSectionVisible, sponsors
    media,                \* platform: [supported, listener] of window.matchMedia
    pc,                   \* "closed" (no AppComponent), "running", or "detached" (subscriber torn down)
    appVersion,           \* appSettings.appVersion of the installed build
    isBrowser,            \* _isBrowser
    curVerAppUsedCount,   \* _curVerAppUsedCount
    isAppUsedBefore,      \* _isAppUsedBefore
    isFirstNavigation,    \* _isFirstNavigation
    aboutPageNavigated,   \* _aboutPageNavigated
    hideSponsorSection,   \* _hideSponsorSection
    isHomePage,           \* isHomePage
    pageClass,            \* _pageClass, "undefined" when undefined
    sponsors,             \* sponsors
    colorMode,            \* _colorMode, <<>> when undefined
    isDarkMode,           \* _isDarkMode, <<>> when null
    darkListener,         \* the 'change' listener of detectDarkThemeChange is registered
    sheetOpen,            \* the bottom sheet of SocialSharingSheetComponent is open
    pendingRedirect,      \* router.navigate(['/about']) was called and has not completed
    fired,                \* branches of the subscriber taken in this session, in order
    firstNavPage,         \* page type of the first NavigationEnd of this session, <<>> before it
    navigateCalls,        \* calls of router.navigate in this session
    sheetOpens,           \* calls of bottomSheet.open in this session
    countWrites,          \* values written to the current version's usage count in this session
    startCache,           \* the store as the constructor found it
    usesSinceShown,       \* <<>> before any prompt, else <<usage-count increments since the last prompt>>
    usedKnown,            \* a browser session has computed _isAppUsedBefore or incremented a count
    decidedIn             \* app versions in whose browser sessions a branch of the subscriber was taken

vars == <<cache, config, media, pc, appVersion, isBrowser, curVerAppUsedCount,
          isAppUsedBefore, isFirstNavigation, aboutPageNavigated, hideSponsorSection,
          isHomePage, pageClass, sponsors, colorMode, isDarkMode, darkListener,
          sheetOpen,
          pendingRedirect, fired, firstNavPage, navigateCalls, sheetOpens,
          countWrites, startCache, usesSinceShown, usedKnown, decidedIn>>

----------------------------------------------------------------------------
(* Bounds *)

\* incrementing sessions on one store
MaxUses == 13
\* app versions installed in turn on one store
MaxVersions == 2
\* historical versions (from the head of oldVersions) a legacy store may hold a count of
MaxLegacy == 1
\* branch firings recorded per session
MaxFired == 3
\* incrementing sessions on one store when the theme environment varies
ThemeMaxUses == 1

----------------------------------------------------------------------------
(* JavaScript values *)

\* the number NaN (parseInt of a string without leading digits)
NaN == -1

Digits == <<"0", "1", "2", "3", "4", "5", "6", "7", "8", "9">>

IsDigit(c) == \E i \in 1..10 : Digits[i] = c

DigitVal(c) == (CHOOSE i \in 1..10 : Digits[i] = c) - 1

\* the longest prefix of s made of decimal digits
RECURSIVE DigitPrefix(_)
DigitPrefix(s) ==
    IF s = <<>> \/ ~IsDigit(Head(s)) THEN <<>>
    ELSE <<Head(s)>> \o DigitPrefix(Tail(s))

RECURSIVE DigitsToNat(_, _)
DigitsToNat(s, acc) ==
    IF s = <<>> THEN acc ELSE DigitsToNat(Tail(s), acc * 10 + DigitVal(Head(s)))

\* parseInt(s, 10)
ParseInt(s) ==
    IF DigitPrefix(s) = <<>> THEN NaN ELSE DigitsToNat(DigitPrefix(s), 0)

RECURSIVE NatToDigits(_)
NatToDigits(n) ==
    IF n < 10 THEN <<Digits[n + 1]>>
    ELSE NatToDigits(n \div 10) \o <<Digits[(n % 10) + 1]>>

\* `${n}` of a number
NumToString(n) == IF n = NaN THEN <<"N", "a", "N">> ELSE NatToDigits(n)

\* n + 1
Plus(n, m) == IF n = NaN \/ m = NaN THEN NaN ELSE n + m

\* n < m
Less(n, m) == n # NaN /\ m # NaN /\ n < m

\* `${b}`.toLowerCase() of a boolean
BoolToString(b) == IF b THEN "true" ELSE "false"

\* s.toLowerCase() of the colour-mode strings
ToLowerCase(s) ==
    CASE s = "Dark" -> "dark"
      [] s = "LIGHT" -> "light"
      [] OTHER -> s

----------------------------------------------------------------------------
(* Versions and store keys *)

oldVersions ==
    <<"3.3.3", "3.3.2", "3.3.1", "3.3.0", "3.2.0", "3.1.0", "3.0.0",
      "2.0.7", "2.0.6", "2.0.5", "2.0.4", "2.0.3", "2.0.2", "2.0.1", "2.0.0",
      "2.0.0-preview1",
      "1.1.5", "1.1.4", "1.1.3", "1.1.2", "1.1.1", "1.0.1", "1.0.0">>

\* values of appSettings.appVersion of the builds that run this component, oldest first
AppVersionNames == <<"3.4.0", "3.4.1", "3.5.0", "4.0.0">>

AppVersions == SubSeq(AppVersionNames, 1, MaxVersions)

VersionIndex(v) == CHOOSE i \in 1..Len(AppVersionNames) : AppVersionNames[i] = v

Range(s) == {s[i] : i \in 1..Len(s)}

CountKey(ver) == "appUsedCount-v" \o ver

Keys ==
    {CountKey(v) : v \in Range(oldVersions) \cup Range(AppVersionNames)} \cup
    {"appUsed", "socialSharingSheetShownIn", "socialSharingYesButtonPressed",
     "socialSharingNoButtonPressed", "isDarkMode"}

EmptyCache == [k \in Keys |-> <<>>]

\* CacheService.setItem
SetItem(c, k, v) == [c EXCEPT ![k] = <<v>>]

\* getItem(k) is not null
HasItem(c, k) == Len(c[k]) > 0

\* getItem(k), where the key is present
Item(c, k) == c[k][1]

\* if (str), for a stored string of characters
TruthyStr(c, k) == HasItem(c, k) /\ Item(c, k) # <<>>

\* if (flag), for a stored boolean
TruthyBool(c, k) == HasItem(c, k) /\ Item(c, k) = TRUE

\* if (n), for a stored number
TruthyNum(c, k) == HasItem(c, k) /\ Item(c, k) # 0 /\ Item(c, k) # NaN

----------------------------------------------------------------------------
(* Usage classifier *)

GetCurVerAppUsedCount(c, ver) ==
    IF TruthyStr(c, CountKey(ver)) THEN ParseInt(Item(c, CountKey(ver))) ELSE 0

\* checkAppUsedBefore with a scan that stops one entry short of the end of the list
CheckAppUsedBeforeShortScan(browser, count, c) ==
    IF ~browser THEN FALSE
    ELSE IF Less(0, count) THEN TRUE
    ELSE IF HasItem(c, "appUsed") /\ Item(c, "appUsed") = "true" THEN TRUE
    ELSE \E i \in 1..(Len(oldVersions) - 1) : TruthyStr(c, CountKey(oldVersions[i]))

CheckAppUsedBefore(browser, count, c) ==
    IF ~browser THEN FALSE
    ELSE IF Less(0, count) THEN TRUE
    ELSE IF HasItem(c, "appUsed") /\ Item(c, "appUsed") = "true" THEN TRUE
    ELSE \E i \in 1..Len(oldVersions) : TruthyStr(c, CountKey(oldVersions[i]))

\* increaseAppUsedCount without the early return outside the browser
IncreaseAppUsedCountAnyPlatform(browser, ver, count, used, c) ==
    LET c1 == SetItem(c, CountKey(ver), NumToString(Plus(count, 1)))
    IN  IF ~used THEN SetItem(c1, "appUsed", "true") ELSE c1

\* increaseAppUsedCount writing the startup count back, without the + 1
IncreaseAppUsedCountSameValue(browser, ver, count, used, c) ==
    IF ~browser THEN c
    ELSE LET c1 == SetItem(c, CountKey(ver), NumToString(count))
         IN  IF ~used THEN SetItem(c1, "appUsed", "true") ELSE c1

\* increaseAppUsedCount without the write of the 'appUsed' flag
IncreaseAppUsedCountNoFlag(browser, ver, count, used, c) ==
    IF ~browser THEN c
    ELSE SetItem(c, CountKey(ver), NumToString(Plus(count, 1)))

IncreaseAppUsedCount(browser, ver, count, used, c) ==
    IF ~browser THEN c
    ELSE LET c1 == SetItem(c, CountKey(ver), NumToString(Plus(count, 1)))
         IN  IF ~used THEN SetItem(c1, "appUsed", "true") ELSE c1

----------------------------------------------------------------------------
(* Share eligibility predicate; navigatorIsObject is typeof navigator === 'object' *)

\* shouldShowSocialSharingSheet with <= in the cooldown comparison
ShouldShowInclusiveCooldown(count, navigatorIsObject, onLine, c) ==
    IF Less(count, 5) \/ ~navigatorIsObject \/ ~onLine THEN FALSE
    ELSE IF TruthyBool(c, "socialSharingYesButtonPressed") THEN FALSE
    ELSE IF TruthyBool(c, "socialSharingNoButtonPressed") THEN FALSE
    ELSE IF TruthyNum(c, "socialSharingSheetShownIn")
            /\ ~Less(Plus(Item(c, "socialSharingSheetShownIn"), 7), count) THEN FALSE
    ELSE TRUE

\* shouldShowSocialSharingSheet without the check of the No button
ShouldShowIgnoringDeclined(count, navigatorIsObject, onLine, c) ==
    IF Less(count, 5) \/ ~navigatorIsObject \/ ~onLine THEN FALSE
    ELSE IF TruthyBool(c, "socialSharingYesButtonPressed") THEN FALSE
    ELSE IF TruthyNum(c, "socialSharingSheetShownIn")
            /\ Less(count, Plus(Item(c, "socialSharingSheetShownIn"), 7)) THEN FALSE
    ELSE TRUE

ShouldShowSocialSharingSheet(count, navigatorIsObject, onLine, c) ==
    IF Less(count, 5) \/ ~navigatorIsObject \/ ~onLine THEN FALSE
    ELSE IF TruthyBool(c, "socialSharingYesButtonPressed") THEN FALSE
    ELSE IF TruthyBool(c, "socialSharingNoButtonPressed") THEN FALSE
    ELSE IF TruthyNum(c, "socialSharingSheetShownIn")
            /\ Less(count, Plus(Item(c, "socialSharingSheetShownIn"), 7)) THEN FALSE
    ELSE TRUE

----------------------------------------------------------------------------
(* Configuration and theme *)

PageTypes == {"home-page", "about-page", "support-page", "undefined"}

ColorModes == {<<>>, <<"dark">>, <<"light">>, <<"Dark">>, <<"LIGHT">>, <<"auto">>}

SponsorsStrs == {<<>>, <<"[{}]">>, <<"{bad">>}

Configs ==
    [colorMode : ColorModes, sponsorSectionVisible : {<<>>, <<"false">>}, sponsors : SponsorsStrs]

DefaultConfig == [colorMode |-> <<>>, sponsorSectionVisible |-> <<>>, sponsors |-> <<"[{}]">>]

Medias == [supported : BOOLEAN, addEventListener : BOOLEAN]

NoMedia == [supported |-> FALSE, addEventListener |-> FALSE]

\* JSON.parse(sponsorsStr) with the catch of updateConfigValues
ParseSponsors(str) == IF str = "[{}]" THEN <<"sponsor">> ELSE <<>>

\* updateConfigValues: the three fields it assigns
ConfigColorMode(cfg) == cfg.colorMode

\* updateConfigValues assigning the flag from the configured value in both directions
ConfigHideSponsorSectionAssigned(cfg, hide) ==
    cfg.sponsorSectionVisible # <<>> /\ ToLowerCase(cfg.sponsorSectionVisible[1]) = "false"

ConfigHideSponsorSection(cfg, hide) ==
    IF cfg.sponsorSectionVisible # <<>> /\ ToLowerCase(cfg.sponsorSectionVisible[1]) = "false"
    THEN TRUE ELSE hide

ConfigSponsors(cfg, old) ==
    IF cfg.sponsors # <<>> THEN ParseSponsors(cfg.sponsors[1]) ELSE old

\* detectDarkTheme consulting the persisted value before the configured colour mode
DetectDarkThemePersistedFirst(cm, c) ==
    IF HasItem(c, "isDarkMode") THEN Item(c, "isDarkMode") = "true"
    ELSE IF cm # <<>> /\ ToLowerCase(cm[1]) = "dark" THEN TRUE
    ELSE IF cm # <<>> /\ ToLowerCase(cm[1]) = "light" THEN FALSE
    ELSE TRUE

\* detectDarkTheme: the default value it resolves
DetectDarkTheme(cm, c) ==
    IF cm # <<>> /\ ToLowerCase(cm[1]) = "dark" THEN TRUE
    ELSE IF cm # <<>> /\ ToLowerCase(cm[1]) = "light" THEN FALSE
    ELSE IF ~HasItem(c, "isDarkMode") THEN TRUE
    ELSE Item(c, "isDarkMode") = "true"

\* detectDarkThemeChange: the value it passes to setDarkMode
DetectDarkThemeChange(defaultValue, forceDefaultValue, m, matches) ==
    IF m.supported THEN (IF forceDefaultValue THEN defaultValue ELSE matches)
    ELSE defaultValue

\* detectDarkThemeChange: whether it registers the 'change' listener
RegistersListener(m) == m.supported /\ m.addEventListener

\* setDarkMode: the store after it
SetDarkMode(value, c) == SetItem(c, "isDarkMode", BoolToString(value))

----------------------------------------------------------------------------
(* Derived view state *)

aboutSectionVisible == isHomePage /\ ~isAppUsedBefore /\ ~aboutPageNavigated

sponsorSectionVisible ==
    ~(hideSponsorSection \/ sponsors = <<>> \/ ~isBrowser \/ ~isHomePage \/ aboutSectionVisible)

\* usage-count increments recorded on the store, over the versions that run this component
RECURSIVE SumCounts(_, _)
SumCounts(c, i) ==
    IF i = 0 THEN 0
    ELSE LET n == GetCurVerAppUsedCount(c, AppVersionNames[i])
         IN  (IF n = NaN THEN 0 ELSE n) + SumCounts(c, i - 1)

TotalUses(c) == SumCounts(c, Len(AppVersionNames))

\* fewer than limit increments were made since the share prompt was last shown
UsesSinceShownBelow(limit) ==
    IF usesSinceShown = <<>> THEN TRUE ELSE usesSinceShown[1] < limit

----------------------------------------------------------------------------
(* Initial states *)

\* stores left by the historical versions, which kept a count and no 'appUsed' flag
LegacyIndexes == (1..MaxLegacy) \cup {Len(oldVersions)}

LegacyCaches ==
    {EmptyCache} \cup
    {SetItem(EmptyCache, CountKey(oldVersions[i]), <<"3">>) : i \in LegacyIndexes}

ClosedSession ==
    /\ pc = "closed"
    /\ isBrowser = FALSE
    /\ curVerAppUsedCount = 0
    /\ isAppUsedBefore = FALSE
    /\ isFirstNavigation = TRUE
    /\ aboutPageNavigated = FALSE
    /\ hideSponsorSection = FALSE
    /\ isHomePage = TRUE
    /\ pageClass = "undefined"
    /\ sponsors = <<>>
    /\ colorMode = <<>>
    /\ isDarkMode = <<>>
    /\ darkListener = FALSE
    /\ sheetOpen = FALSE
    /\ pendingRedirect = FALSE
    /\ fired = <<>>
    /\ firstNavPage = <<>>
    /\ navigateCalls = 0
    /\ sheetOpens = 0
    /\ countWrites = <<>>
    /\ startCache = EmptyCache

InitStore ==
    /\ cache \in LegacyCaches
    /\ appVersion = AppVersionNames[1]
    /\ usesSinceShown = <<>>
    /\ usedKnown = FALSE
    /\ decidedIn = {}

Init ==
    /\ InitStore
    /\ config = DefaultConfig
    /\ media = NoMedia
    /\ ClosedSession

InitTheme ==
    /\ InitStore
    /\ config \in Configs
    /\ media \in Medias
    /\ ClosedSession

----------------------------------------------------------------------------
(* The constructor *)

StartSession(limit) ==
    /\ pc = "closed"
    /\ \E browser \in BOOLEAN, ver \in Range(AppVersions) :
        /\ VersionIndex(ver) >= VersionIndex(appVersion)
        /\ browser => (TotalUses(cache) < limit /\ UsesSinceShownBelow(limit))
        /\ LET count == IF browser THEN GetCurVerAppUsedCount(cache, ver) ELSE 0
               used == IF browser THEN CheckAppUsedBefore(browser, count, cache) ELSE FALSE
               cm == ConfigColorMode(config)
               dark == DetectDarkThemeChange(DetectDarkTheme(cm, cache), TRUE, media, FALSE)
           IN  /\ pc' = "running"
               /\ appVersion' = ver
               /\ isBrowser' = browser
               /\ curVerAppUsedCount' = count
               /\ isAppUsedBefore' = used
               /\ startCache' = cache
               /\ usedKnown' = (usedKnown \/ used)
               /\ IF browser
                  THEN /\ colorMode' = cm
                       /\ hideSponsorSection' = ConfigHideSponsorSection(config, hideSponsorSection)
                       /\ sponsors' = ConfigSponsors(config, sponsors)
                       /\ isDarkMode' = <<dark>>
                       /\ cache' = SetDarkMode(dark, cache)
                       /\ darkListener' = RegistersListener(media)
                  ELSE UNCHANGED <<colorMode, hideSponsorSection, sponsors, isDarkMode,
                                   cache, darkListener>>
    /\ UNCHANGED <<config, media, isFirstNavigation, aboutPageNavigated, isHomePage, pageClass,
                   sheetOpen, pendingRedirect, fired, firstNavPage, navigateCalls,
                   sheetOpens, countWrites, usesSinceShown, decidedIn>>

----------------------------------------------------------------------------
(* The router.events subscriber *)

\* the chain with a last branch that is not guarded by _isFirstNavigation
BranchEveryNavigation(home, navigatorIsObject, onLine) ==
    IF isBrowser /\ home /\ isFirstNavigation /\ curVerAppUsedCount = 0 /\ isAppUsedBefore
    THEN "redirect"
    ELSE IF isBrowser /\ home /\ isFirstNavigation
            /\ ShouldShowSocialSharingSheet(curVerAppUsedCount, navigatorIsObject, onLine, cache)
    THEN "share"
    ELSE "default"

\* the chain with a redirect branch that does not test _isAppUsedBefore
BranchRedirectOnZeroCount(home, navigatorIsObject, onLine) ==
    IF isBrowser /\ home /\ isFirstNavigation /\ curVerAppUsedCount = 0
    THEN "redirect"
    ELSE IF isBrowser /\ home /\ isFirstNavigation
            /\ ShouldShowSocialSharingSheet(curVerAppUsedCount, navigatorIsObject, onLine, cache)
    THEN "share"
    ELSE IF isFirstNavigation THEN "default"
    ELSE "none"

\* the chain with a last branch that is taken on the home page only
BranchDefaultOnHomeOnly(home, navigatorIsObject, onLine) ==
    IF isBrowser /\ home /\ isFirstNavigation /\ curVerAppUsedCount = 0 /\ isAppUsedBefore
    THEN "redirect"
    ELSE IF isBrowser /\ home /\ isFirstNavigation
            /\ ShouldShowSocialSharingSheet(curVerAppUsedCount, navigatorIsObject, onLine, cache)
    THEN "share"
    ELSE IF home /\ isFirstNavigation THEN "default"
    ELSE "none"

\* the branch of the if / else if chain that a NavigationEnd takes
Branch(home, navigatorIsObject, onLine) ==
    IF isBrowser /\ home /\ isFirstNavigation /\ curVerAppUsedCount = 0 /\ isAppUsedBefore
    THEN "redirect"
    ELSE IF isBrowser /\ home /\ isFirstNavigation
            /\ ShouldShowSocialSharingSheet(curVerAppUsedCount, navigatorIsObject, onLine, cache)
    THEN "share"
    ELSE IF isFirstNavigation THEN "default"
    ELSE "none"

\* the redirect branch leaving _isFirstNavigation set
FirstNavigationKeptOnRedirect(branch) ==
    IF branch \in {"none", "redirect"} THEN isFirstNavigation ELSE FALSE

\* the share-prompt branch leaving _isFirstNavigation set
FirstNavigationKeptOnShare(branch) ==
    IF branch \in {"none", "share"} THEN isFirstNavigation ELSE FALSE

\* _isFirstNavigation after the branch
FirstNavigationAfter(branch) == IF branch = "none" THEN isFirstNavigation ELSE FALSE

\* the store after the branch, with the count after the increment recorded for the prompt
CacheAfterShownAtNewCount(branch) ==
    LET inc == IncreaseAppUsedCount(isBrowser, appVersion, curVerAppUsedCount,
                                    isAppUsedBefore, cache)
    IN  CASE branch = "redirect" -> inc
          [] branch = "share" ->
                SetItem(inc, "socialSharingSheetShownIn", Plus(curVerAppUsedCount, 1))
          [] branch = "default" -> inc
          [] OTHER -> cache

\* the store after the branch
CacheAfter(branch) ==
    LET inc == IncreaseAppUsedCount(isBrowser, appVersion, curVerAppUsedCount,
                                    isAppUsedBefore, cache)
    IN  CASE branch = "redirect" -> inc
          [] branch = "share" -> SetItem(inc, "socialSharingSheetShownIn", curVerAppUsedCount)
          [] branch = "default" -> inc
          [] OTHER -> cache

\* _aboutPageNavigated following the page type, reset on leaving the about page
AboutPageNavigatedFollowsPage(pageType) == isBrowser /\ pageType = "about-page"

\* _aboutPageNavigated after the event
AboutPageNavigatedAfter(pageType) ==
    IF ~aboutPageNavigated /\ isBrowser /\ pageType = "about-page"
    THEN TRUE ELSE aboutPageNavigated

Navigate ==
    /\ pc = "running"
    /\ \E pageType \in PageTypes, navigatorIsObject \in BOOLEAN, onLine \in BOOLEAN :
        LET home == (pageType = "home-page")
            branch == Branch(home, navigatorIsObject, onLine)
            writes == branch # "none" /\ isBrowser
        IN  /\ isHomePage' = home
            /\ pageClass' = pageType
            /\ aboutPageNavigated' = AboutPageNavigatedAfter(pageType)
            /\ isFirstNavigation' = FirstNavigationAfter(branch)
            /\ cache' = CacheAfter(branch)
            /\ hideSponsorSection' =
                  IF branch \in {"redirect", "share"} THEN TRUE ELSE hideSponsorSection
            /\ navigateCalls' = IF branch = "redirect" THEN navigateCalls + 1 ELSE navigateCalls
            /\ pendingRedirect' =
                  IF branch = "redirect" THEN TRUE
                  ELSE IF pageType = "about-page" THEN FALSE ELSE pendingRedirect
            /\ sheetOpens' = IF branch = "share" THEN sheetOpens + 1 ELSE sheetOpens
            /\ sheetOpen' = IF branch = "share" THEN TRUE ELSE sheetOpen
            /\ fired' = IF branch # "none" /\ Len(fired) < MaxFired
                        THEN Append(fired, branch) ELSE fired
            /\ firstNavPage' = IF firstNavPage = <<>> THEN <<pageType>> ELSE firstNavPage
            /\ countWrites' =
                  IF writes /\ Len(countWrites) < MaxFired
                  THEN Append(countWrites, Item(cache', CountKey(appVersion)))
                  ELSE countWrites
            /\ usesSinceShown' =
                  IF ~writes THEN usesSinceShown
                  ELSE IF branch = "share" THEN <<1>>
                  ELSE IF usesSinceShown = <<>> THEN <<>>
                  ELSE <<usesSinceShown[1] + 1>>
            /\ usedKnown' = (usedKnown \/ writes)
            /\ decidedIn' = IF writes THEN decidedIn \cup {appVersion} ELSE decidedIn
    /\ UNCHANGED <<config, media, pc, appVersion, isBrowser, curVerAppUsedCount,
                   isAppUsedBefore, sponsors, colorMode, isDarkMode, darkListener,
                   startCache>>

----------------------------------------------------------------------------
(* The share sheet, the platform and the end of the session *)

\* SocialSharingSheetComponent: the user presses the Yes or the No button
ShareResponse ==
    /\ pc = "running"
    /\ sheetOpen
    /\ \E accepted \in BOOLEAN :
        cache' = SetItem(cache,
                         IF accepted THEN "socialSharingYesButtonPressed"
                         ELSE "socialSharingNoButtonPressed", TRUE)
    /\ sheetOpen' = FALSE
    /\ UNCHANGED <<config, media, pc, appVersion, isBrowser, curVerAppUsedCount,
                   isAppUsedBefore, isFirstNavigation, aboutPageNavigated,
                   hideSponsorSection, isHomePage, pageClass, sponsors, colorMode, isDarkMode,
                   darkListener, pendingRedirect, fired, firstNavPage, navigateCalls,
                   sheetOpens, countWrites, startCache, usesSinceShown, usedKnown, decidedIn>>

\* the bottom sheet is dismissed by a tap outside it
DismissSheet ==
    /\ pc = "running"
    /\ sheetOpen
    /\ sheetOpen' = FALSE
    /\ UNCHANGED <<cache, config, media, pc, appVersion, isBrowser, curVerAppUsedCount,
                   isAppUsedBefore, isFirstNavigation, aboutPageNavigated,
                   hideSponsorSection, isHomePage, pageClass, sponsors, colorMode, isDarkMode,
                   darkListener, pendingRedirect, fired, firstNavPage, navigateCalls,
                   sheetOpens, countWrites, startCache, usesSinceShown, usedKnown, decidedIn>>

\* the 'change' listener of the prefers-color-scheme media query
MediaChange ==
    /\ pc = "running"
    /\ darkListener
    /\ \E matches \in BOOLEAN :
        /\ isDarkMode' = <<matches>>
        /\ cache' = SetDarkMode(matches, cache)
    /\ UNCHANGED <<config, media, pc, appVersion, isBrowser, curVerAppUsedCount,
                   isAppUsedBefore, isFirstNavigation, aboutPageNavigated,
                   hideSponsorSection, isHomePage, pageClass, sponsors, colorMode, darkListener,
                   sheetOpen, pendingRedirect, fired, firstNavPage, navigateCalls,
                   sheetOpens, countWrites, startCache, usesSinceShown, usedKnown, decidedIn>>

\* the subscriber of configService.valueChanges
ConfigChange ==
    /\ pc = "running"
    /\ isBrowser
    /\ \E cfg \in Configs :
        /\ cfg # config
        /\ config' = cfg
        /\ colorMode' = ConfigColorMode(cfg)
        /\ hideSponsorSection' = ConfigHideSponsorSection(cfg, hideSponsorSection)
        /\ sponsors' = ConfigSponsors(cfg, sponsors)
    /\ UNCHANGED <<cache, media, pc, appVersion, isBrowser, curVerAppUsedCount,
                   isAppUsedBefore, isFirstNavigation, aboutPageNavigated, isHomePage, pageClass,
                   isDarkMode, darkListener, sheetOpen, pendingRedirect, fired,
                   firstNavPage, navigateCalls, sheetOpens, countWrites, startCache,
                   usesSinceShown, usedKnown, decidedIn>>

\* the application is closed or reloaded (ngOnDestroy); the store survives
EndSession ==
    /\ pc # "closed"
    /\ pc' = "closed"
    /\ isBrowser' = FALSE
    /\ curVerAppUsedCount' = 0
    /\ isAppUsedBefore' = FALSE
    /\ isFirstNavigation' = TRUE
    /\ aboutPageNavigated' = FALSE
    /\ hideSponsorSection' = FALSE
    /\ isHomePage' = TRUE
    /\ pageClass' = "undefined"
    /\ sponsors' = <<>>
    /\ colorMode' = <<>>
    /\ isDarkMode' = <<>>
    /\ darkListener' = FALSE
    /\ sheetOpen' = FALSE
    /\ pendingRedirect' = FALSE
    /\ fired' = <<>>
    /\ firstNavPage' = <<>>
    /\ navigateCalls' = 0
    /\ sheetOpens' = 0
    /\ countWrites' = <<>>
    /\ startCache' = EmptyCache
    /\ UNCHANGED <<cache, config, media, appVersion, usesSinceShown, usedKnown, decidedIn>>

----------------------------------------------------------------------------
(* Specifications *)

StartEngagementSession == StartSession(MaxUses)

StartThemeSession == StartSession(ThemeMaxUses)

\* sessions on one store under the default configuration, without a colour-scheme signal
Next ==
    \/ StartEngagementSession
    \/ Navigate
    \/ ShareResponse
    \/ DismissSheet
    \/ EndSession

Spec == Init /\ [][Next]_vars

\* sessions under every configuration and platform, with configuration and colour-scheme events
NextTheme ==
    \/ StartThemeSession
    \/ Navigate
    \/ MediaChange
    \/ ConfigChange
    \/ EndSession

SpecTheme == InitTheme /\ [][NextTheme]_vars

----------------------------------------------------------------------------
(* Properties *)

Running == pc = "running"

ClientSession == pc = "running" /\ isBrowser

StoredCountIs(c, ver, str) == HasItem(c, CountKey(ver)) /\ Item(c, CountKey(ver)) = str

\* C1: within one session at most one branch of the subscriber (redirect, share
\* prompt, default increment) ever fires, whatever navigation events arrive; once
\* one has fired the first-navigation guard is down and no later event fires any.
C1_DecisionAtMostOnce ==
    /\ Len(fired) <= 1
    /\ navigateCalls + sheetOpens <= 1
    /\ Running => (isFirstNavigation <=> fired = <<>>)

\* a session whose first navigation was not the home page, which then landed on the
\* home page with the redirect condition otherwise met
C1_Witness ==
    /\ ClientSession
    /\ curVerAppUsedCount = 0 /\ isAppUsedBefore
    /\ firstNavPage = <<"about-page">>
    /\ isHomePage
    /\ fired = <<"default">>

\* C2: in a client-side session with currentCount = 0 and HasUsedBefore, a first
\* navigation to the home page redirects to the about route and the stored usage
\* count of the current version becomes 1.
C2_RedirectAndCountOne ==
    (ClientSession /\ curVerAppUsedCount = 0 /\ isAppUsedBefore
        /\ firstNavPage = <<"home-page">>)
    => /\ fired = <<"redirect">>
       /\ navigateCalls = 1
       /\ StoredCountIs(cache, appVersion, <<"1">>)

C2_Witness ==
    /\ ClientSession /\ curVerAppUsedCount = 0 /\ isAppUsedBefore
    /\ firstNavPage = <<"home-page">>
    /\ pendingRedirect

\* the store holds no usage count of any version and no used flag
NeverUsed(c) ==
    /\ ~HasItem(c, "appUsed")
    /\ \A v \in Range(oldVersions) \cup Range(AppVersionNames) : ~HasItem(c, CountKey(v))

FirstEverOnHome ==
    ClientSession /\ NeverUsed(startCache) /\ firstNavPage = <<"home-page">>

\* C3 as stated: a first-time-ever visitor (client-side session on a store with no
\* usage count and no used flag) whose first navigation lands on the home page is
\* redirected to the about page.
C3_FirstEverRedirected == FirstEverOnHome => navigateCalls = 1

\* C3 amended: a first-time-ever visitor whose first navigation lands on the home
\* page is not redirected: the default branch fires (count 1, used flag set),
\* without a redirect and without the share prompt.
C3_FirstEverDefault ==
    FirstEverOnHome
    => /\ fired = <<"default">>
       /\ navigateCalls = 0 /\ sheetOpens = 0
       /\ StoredCountIs(cache, appVersion, <<"1">>)
       /\ HasItem(cache, "appUsed") /\ Item(cache, "appUsed") = "true"

C3_Witness == FirstEverOnHome /\ isHomePage /\ aboutSectionVisible

\* the value of a stored flag is true
StoredTrue(c, k) == HasItem(c, k) /\ Item(c, k) = TRUE

ShownAt == Item(cache, "socialSharingSheetShownIn")

\* C4: shouldShowSocialSharingSheet is true exactly when currentCount >= 5, the
\* client is online, ShareAccepted and ShareDeclined are not true, and
\* SharePromptShownAtCount is absent or currentCount >= SharePromptShownAtCount + 7;
\* so false at count 4, false at count 11 shown at 5, true at count 12 shown at 5.
C4_SharePredicate ==
    ClientSession =>
        \A navigatorIsObject \in BOOLEAN, onLine \in BOOLEAN :
            LET shown == ShouldShowSocialSharingSheet(curVerAppUsedCount, navigatorIsObject,
                                                      onLine, cache)
                clean == /\ ~StoredTrue(cache, "socialSharingYesButtonPressed")
                         /\ ~StoredTrue(cache, "socialSharingNoButtonPressed")
            IN  /\ shown <=>
                      /\ curVerAppUsedCount >= 5
                      /\ navigatorIsObject /\ onLine
                      /\ clean
                      /\ \/ ~HasItem(cache, "socialSharingSheetShownIn")
                         \/ curVerAppUsedCount >= ShownAt + 7
                /\ curVerAppUsedCount = 4 => ~shown
                /\ (curVerAppUsedCount = 11 /\ HasItem(cache, "socialSharingSheetShownIn")
                       /\ ShownAt = 5) => ~shown
                /\ (curVerAppUsedCount = 12 /\ HasItem(cache, "socialSharingSheetShownIn")
                       /\ ShownAt = 5 /\ navigatorIsObject /\ onLine /\ clean) => shown

C4_Witness ==
    /\ ClientSession /\ isFirstNavigation
    /\ curVerAppUsedCount = 12
    /\ HasItem(cache, "socialSharingSheetShownIn") /\ ShownAt = 5
    /\ ShouldShowSocialSharingSheet(curVerAppUsedCount, TRUE, TRUE, cache)

\* C5: with the client online, currentCount >= 5 and no response flag, in the same
\* or a later version, the share predicate of a session is true exactly when at
\* least 7 uses (the prompting session's increment included) have occurred since
\* the prompt was last shown.
C5_CooldownSevenUses ==
    (ClientSession /\ isFirstNavigation /\ curVerAppUsedCount >= 5
        /\ ~StoredTrue(cache, "socialSharingYesButtonPressed")
        /\ ~StoredTrue(cache, "socialSharingNoButtonPressed")
        /\ usesSinceShown # <<>>)
    => (ShouldShowSocialSharingSheet(curVerAppUsedCount, TRUE, TRUE, cache)
           <=> usesSinceShown[1] >= 7)

ResponseStored ==
    \/ StoredTrue(cache, "socialSharingYesButtonPressed")
    \/ StoredTrue(cache, "socialSharingNoButtonPressed")

\* C6: once ShareAccepted or ShareDeclined is stored as true it stays stored, the
\* share predicate is false in every session, of the same or a later version, and
\* the share prompt is not presented again.
C6_NoPromptAfterResponse ==
    [][ResponseStored =>
          /\ ResponseStored'
          /\ sheetOpens' <= sheetOpens
          /\ (pc' = "running" /\ isBrowser') =>
                \A navigatorIsObject \in BOOLEAN, onLine \in BOOLEAN :
                    ~ShouldShowSocialSharingSheet(curVerAppUsedCount', navigatorIsObject,
                                                  onLine, cache')]_vars

\* a session, 7 uses after the prompt, that landed on the home page online with a
\* response stored, and took the default branch
C6_Witness ==
    /\ ClientSession /\ ResponseStored
    /\ curVerAppUsedCount >= 5
    /\ usesSinceShown # <<>> /\ usesSinceShown[1] >= 8
    /\ firstNavPage = <<"home-page">>
    /\ fired = <<"default">>

\* C7: in a client-side session with currentCount = 0, checkAppUsedBefore is true if
\* the used flag is 'true' or a version of the historical list has a non-empty
\* stored count, and false on an entirely empty store; with currentCount > 0 it is
\* true whatever the store holds.
C7_CheckAppUsedBefore ==
    ClientSession =>
        /\ (curVerAppUsedCount = 0
              /\ \/ (HasItem(startCache, "appUsed") /\ Item(startCache, "appUsed") = "true")
                 \/ \E v \in Range(oldVersions) :
                       HasItem(startCache, CountKey(v)) /\ Item(startCache, CountKey(v)) # <<>>)
           => isAppUsedBefore
        /\ (curVerAppUsedCount = 0 /\ startCache = EmptyCache) => ~isAppUsedBefore
        /\ curVerAppUsedCount > 0 => isAppUsedBefore

\* used before, known only from the oldest entry of the historical list
C7_Witness ==
    /\ ClientSession /\ curVerAppUsedCount = 0 /\ isAppUsedBefore
    /\ ~HasItem(startCache, "appUsed")
    /\ HasItem(startCache, CountKey("1.0.0"))

IsOverride(cm) == cm # <<>> /\ ToLowerCase(cm[1]) \in {"dark", "light"}

OverrideValue(cm) == ToLowerCase(cm[1]) = "dark"

\* C8: with an explicit 'dark' or 'light' colour mode configured, the session's
\* dark-mode value equals the override after the initial resolution and keeps
\* equal to it after every later event, colour-scheme change notifications included.
C8_OverrideAlwaysWins ==
    [][(/\ pc' = "running" /\ isBrowser'
        /\ IsOverride(colorMode')
        /\ \/ pc = "closed"
           \/ (colorMode = colorMode' /\ isDarkMode = <<OverrideValue(colorMode)>>))
       => isDarkMode' = <<OverrideValue(colorMode')>>]_vars

\* the usage count stored for a version, as the next session of that version reads it
StoredCount(c, ver) == GetCurVerAppUsedCount(c, ver)

\* C9: the stored usage count of a version never decreases, and a session writes the
\* current version's count at most once, to the startup count plus 1, however many
\* navigation events occur (the one caused by the redirect included).
C9_CountMonotoneOncePerSession ==
    [][/\ \A v \in Range(AppVersions) : StoredCount(cache', v) >= StoredCount(cache, v)
       /\ Len(countWrites') <= 1
       /\ countWrites' # <<>> =>
             /\ countWrites'[1] = NumToString(curVerAppUsedCount' + 1)
             /\ StoredCount(cache', appVersion') = curVerAppUsedCount' + 1]_vars

\* the redirect was taken and its own navigation event has been handled
C9_Witness ==
    /\ ClientSession
    /\ fired = <<"redirect">>
    /\ ~pendingRedirect /\ aboutPageNavigated
    /\ Len(countWrites) = 1

\* C10: once a client-side session has computed HasUsedBefore = true or has
\* incremented a usage count, every later client-side session, of the same or a
\* later version, computes HasUsedBefore = true.
C10_UsedBeforeMonotone ==
    [][(pc = "closed" /\ pc' = "running" /\ isBrowser' /\ usedKnown) => isAppUsedBefore']_vars

\* a session of a later version, with no count of its own and no historical count,
\* that knows the installation from the used flag
C10_Witness ==
    /\ ClientSession
    /\ appVersion # AppVersionNames[1]
    /\ curVerAppUsedCount = 0
    /\ \A v \in Range(oldVersions) : ~HasItem(startCache, CountKey(v))
    /\ isAppUsedBefore

----------------------------------------------------------------------------
(* A store whose current-version count was damaged outside the application *)

\* incrementing sessions on a store that starts with a damaged count
CorruptMaxUses == 3

\* a stored count that does not start with a digit
UnparsableCount == <<"a", "b", "c">>

CorruptCaches ==
    {SetItem(c, CountKey(AppVersionNames[1]), UnparsableCount) :
        c \in {EmptyCache, SetItem(EmptyCache, "appUsed", "true")}}

InitCorrupt ==
    /\ cache \in CorruptCaches
    /\ appVersion = AppVersionNames[1]
    /\ usesSinceShown = <<>>
    /\ usedKnown = FALSE
    /\ decidedIn = {}
    /\ config = DefaultConfig
    /\ media = NoMedia
    /\ ClosedSession

StartCorruptSession == StartSession(CorruptMaxUses)

NextCorrupt ==
    \/ StartCorruptSession
    \/ Navigate
    \/ ShareResponse
    \/ DismissSheet
    \/ EndSession

SpecCorrupt == InitCorrupt /\ [][NextCorrupt]_vars

----------------------------------------------------------------------------
(* Properties, continued *)

\* C11: after a client-side session in which the navigation decision ran, the stored
\* used flag 'appUsed' is 'true', however HasUsedBefore was established at startup.
C11_UsedFlagAfterDecision ==
    (ClientSession /\ fired # <<>>)
    => (HasItem(cache, "appUsed") /\ Item(cache, "appUsed") = "true")

\* C12: 'socialSharingSheetShownIn' changes only in the handler step that presents
\* the share prompt, and that step writes the session's startup count; redirect,
\* default increment and later navigations leave it alone.
C12_ShownAtOnlyWithPrompt ==
    [][/\ cache'["socialSharingSheetShownIn"] # cache["socialSharingSheetShownIn"]
          => sheetOpens' = sheetOpens + 1
       /\ sheetOpens' = sheetOpens + 1
          => cache'["socialSharingSheetShownIn"] = <<curVerAppUsedCount>>]_vars

\* the prompt was shown again at count 12, replacing the value 5 of the first prompt
C12_Witness ==
    /\ ClientSession
    /\ sheetOpens = 1
    /\ curVerAppUsedCount = 12
    /\ startCache["socialSharingSheetShownIn"] = <<5>>
    /\ cache["socialSharingSheetShownIn"] = <<12>>

----------------------------------------------------------------------------
(* A store whose setItem can throw (storage full or unavailable) *)

\* incrementing sessions on a store whose writes can fail
WriteFailMaxUses == 6

\* the writes of the decision, in the order the handler makes them
FailPoints == {"count", "appUsed", "shownIn"}

\* the handler makes the write failAt in the branch
MakesWrite(branch, failAt) ==
    /\ isBrowser
    /\ branch # "none"
    /\ failAt = "appUsed" => ~isAppUsedBefore
    /\ failAt = "shownIn" => branch = "share"

\* the store when the exception of the write failAt leaves the handler
CacheAtThrow(failAt) ==
    IF failAt = "count" THEN cache
    ELSE IF failAt = "appUsed"
    THEN SetItem(cache, CountKey(appVersion), NumToString(Plus(curVerAppUsedCount, 1)))
    ELSE IncreaseAppUsedCount(isBrowser, appVersion, curVerAppUsedCount, isAppUsedBefore, cache)

\* the subscriber with a setItem that throws: nothing in the handler catches, so the
\* statements after the failing write are not executed; the uncaught error either
\* tears the subscription down or leaves it, depending on the RxJS build
NavigateWriteThrows ==
    /\ pc = "running"
    /\ \E pageType \in PageTypes, navigatorIsObject \in BOOLEAN, onLine \in BOOLEAN,
          failAt \in FailPoints, after \in {"running", "detached"} :
        LET home == (pageType = "home-page")
            branch == Branch(home, navigatorIsObject, onLine)
            written == failAt # "count"
        IN  /\ MakesWrite(branch, failAt)
            /\ pc' = after
            /\ isHomePage' = home
            /\ pageClass' = pageType
            /\ aboutPageNavigated' = AboutPageNavigatedAfter(pageType)
            /\ isFirstNavigation' = FirstNavigationAfter(branch)
            /\ cache' = CacheAtThrow(failAt)
            /\ hideSponsorSection' = IF failAt = "shownIn" THEN TRUE ELSE hideSponsorSection
            /\ pendingRedirect' = IF pageType = "about-page" THEN FALSE ELSE pendingRedirect
            /\ fired' = IF Len(fired) < MaxFired THEN Append(fired, branch) ELSE fired
            /\ firstNavPage' = IF firstNavPage = <<>> THEN <<pageType>> ELSE firstNavPage
            /\ countWrites' =
                  IF written /\ Len(countWrites) < MaxFired
                  THEN Append(countWrites, Item(cache', CountKey(appVersion)))
                  ELSE countWrites
            /\ usesSinceShown' =
                  IF ~written \/ usesSinceShown = <<>> THEN usesSinceShown
                  ELSE <<usesSinceShown[1] + 1>>
            /\ usedKnown' = (usedKnown \/ written)
            /\ decidedIn' = decidedIn \cup {appVersion}
    /\ UNCHANGED <<config, media, appVersion, isBrowser, curVerAppUsedCount,
                   isAppUsedBefore, sponsors, colorMode, isDarkMode, darkListener,
                   sheetOpen, navigateCalls, sheetOpens, startCache>>

StartWriteFailSession == StartSession(WriteFailMaxUses)

NextWriteFail ==
    \/ StartWriteFailSession
    \/ Navigate
    \/ NavigateWriteThrows
    \/ ShareResponse
    \/ DismissSheet
    \/ EndSession

SpecWriteFail == Init /\ [][NextWriteFail]_vars

----------------------------------------------------------------------------
(* Properties, continued *)

\* the session found a count for its version that is present and does not parse
StartedOnUnparsableCount ==
    /\ ClientSession
    /\ HasItem(startCache, CountKey(appVersion))
    /\ Item(startCache, CountKey(appVersion)) # <<>>
    /\ ~IsDigit(Head(Item(startCache, CountKey(appVersion))))

\* C13: a stored count of the current version that is present but unparsable is
\* treated as absent: currentCount is 0, the share predicate is false and the
\* share prompt is not presented in that session.
C13_UnparsableCountIsZero ==
    StartedOnUnparsableCount
    => /\ curVerAppUsedCount = 0
       /\ \A navigatorIsObject \in BOOLEAN, onLine \in BOOLEAN :
             ~ShouldShowSocialSharingSheet(curVerAppUsedCount, navigatorIsObject,
                                           onLine, startCache)
       /\ sheetOpens = 0

\* C14: a store write that fails during the first-navigation decision is swallowed:
\* the session is Decided and the chosen branch has done its remaining actions
\* (sponsor suppression and the redirect, or sponsor suppression and the prompt).
C14_WriteFailureSwallowed ==
    (pc # "closed" /\ isBrowser /\ fired # <<>>)
    => /\ ~isFirstNavigation
       /\ fired[1] = "redirect" => (hideSponsorSection /\ navigateCalls = 1)
       /\ fired[1] = "share" => (hideSponsorSection /\ sheetOpens = 1)

\* the dark-mode value that the priority of the colour mode cm over the persisted
\* value of the store c gives
ResolvedDarkMode(cm, c) ==
    IF cm \in {<<"dark">>, <<"Dark">>} THEN TRUE
    ELSE IF cm \in {<<"light">>, <<"LIGHT">>} THEN FALSE
    ELSE IF HasItem(c, "isDarkMode") THEN Item(c, "isDarkMode") = "true"
    ELSE TRUE

\* C15: the constructor of a client-side session resolves dark mode by priority: a
\* configured 'dark' or 'light' (in any case) wins whatever is persisted, else the
\* persisted isDarkMode is used (dark iff 'true'), else dark; the resolved value is
\* persisted as isDarkMode.
C15_InitialDarkMode ==
    [][(pc = "closed" /\ pc' = "running" /\ isBrowser')
       => /\ isDarkMode' = <<ResolvedDarkMode(config.colorMode, cache)>>
          /\ cache'["isDarkMode"] =
                <<IF ResolvedDarkMode(config.colorMode, cache) THEN "true" ELSE "false">>]_vars

\* a 'LIGHT' override resolved against a persisted 'true'
C15_Witness ==
    /\ ClientSession
    /\ colorMode = <<"LIGHT">>
    /\ startCache["isDarkMode"] = <<"true">>
    /\ isDarkMode = <<FALSE>>
    /\ cache["isDarkMode"] = <<"false">>

\* the first navigation met the condition of the redirect branch
RedirectInput ==
    isBrowser /\ firstNavPage = <<"home-page">> /\ curVerAppUsedCount = 0 /\ isAppUsedBefore

\* the first navigation cannot have met the condition of the share-prompt branch
NoShareInput ==
    \/ ~isBrowser
    \/ firstNavPage # <<"home-page">>
    \/ curVerAppUsedCount < 5
    \/ StoredTrue(startCache, "socialSharingYesButtonPressed")
    \/ StoredTrue(startCache, "socialSharingNoButtonPressed")

\* C16: after the first navigation event of a session, whatever its page type, the
\* count, the flags and the online state, the session is Decided with exactly one
\* branch taken and, client-side, exactly one write of the startup count plus 1; an
\* input that matches neither the redirect nor the share-prompt condition takes the
\* default branch, with no redirect and no prompt.
C16_FirstNavigationDecides ==
    (Running /\ firstNavPage # <<>>)
    => /\ ~isFirstNavigation
       /\ Len(fired) = 1
       /\ isBrowser =>
             /\ Len(countWrites) = 1
             /\ StoredCountIs(cache, appVersion, NumToString(curVerAppUsedCount + 1))
       /\ ~isBrowser => countWrites = <<>>
       /\ fired[1] = "redirect" <=> RedirectInput
       /\ (~RedirectInput /\ NoShareInput) => fired[1] = "default"
       /\ fired[1] = "default" => (navigateCalls = 0 /\ sheetOpens = 0)

\* a first navigation without a page type, decided by the default branch
C16_Witness ==
    /\ ClientSession
    /\ firstNavPage = <<"undefined">>
    /\ fired = <<"default">>
    /\ Len(countWrites) = 1

\* C17: while the redirect or the share prompt started by the handler is pending,
\* _isFirstNavigation is already false, and no event delivered meanwhile (the
\* navigation produced by the redirect, a home-page navigation under the open
\* prompt) causes a second increment, redirect or prompt.
C17_GuardClearedBeforeAsyncWork ==
    [][(pc = "running" /\ pc' = "running" /\ (pendingRedirect \/ sheetOpen))
       => /\ ~isFirstNavigation /\ ~isFirstNavigation'
          /\ navigateCalls' = navigateCalls
          /\ sheetOpens' = sheetOpens
          /\ countWrites' = countWrites
          /\ cache'[CountKey(appVersion)] = cache[CountKey(appVersion)]]_vars

\* the prompt is still open and a navigation to the home page has been handled
\* after a navigation away from it
C17_Witness ==
    /\ ClientSession
    /\ sheetOpen
    /\ aboutPageNavigated
    /\ isHomePage
    /\ Len(countWrites) = 1 /\ sheetOpens = 1

\* the keys that the first-navigation decision writes
DecisionKeys == {CountKey(appVersion), "appUsed", "socialSharingSheetShownIn"}

\* C18: in a client-side session _aboutPageNavigated becomes true at the first
\* navigation event for the about page (redirected or manual) and only there, is not
\* reset while the session runs, and is not written to the store; from then on the
\* introductory section of the home page is not visible on any navigation.
C18_AboutPageVisitedOneShot ==
    [][(pc = "running" /\ isBrowser /\ pc' = "running")
       => /\ pageClass' = "about-page" => aboutPageNavigated'
          /\ aboutPageNavigated => aboutPageNavigated'
          /\ (~aboutPageNavigated /\ aboutPageNavigated')
             => /\ pageClass' = "about-page"
                /\ \A k \in Keys \ DecisionKeys : cache'[k] = cache[k]
          /\ aboutPageNavigated' => ~aboutSectionVisible']_vars

\* a first-time visitor who opened the about page by hand and came back to the home
\* page, where the introductory section would otherwise show
C18_Witness ==
    /\ ClientSession
    /\ ~isAppUsedBefore
    /\ navigateCalls = 0
    /\ aboutPageNavigated
    /\ isHomePage

C20_NonClientSessionInert ==
    [][(pc' = "running" /\ ~isBrowser')
       => /\ cache' = cache
          /\ navigateCalls' = 0 /\ sheetOpens' = 0
          /\ ~pendingRedirect' /\ ~sheetOpen'
          /\ ~aboutPageNavigated'
          /\ ~hideSponsorSection'
          /\ countWrites' = <<>>
          /\ firstNavPage' # <<>> => (~isFirstNavigation' /\ fired' = <<"default">>)]_vars

\* a non-client session on a used store, after navigations to the home page and
\* to the about page
C20_Witness ==
    /\ Running /\ ~isBrowser
    /\ firstNavPage = <<"home-page">>
    /\ pageClass = "about-page"
    /\ fired = <<"default">>
    /\ TotalUses(cache) >= 5

\* C21: for one installation and one app version the redirect to the about route
\* happens in at most one session: once the subscriber has taken a branch (any of
\* the three, also on a first navigation that was not the home page) in a
\* client-side session of a version, no later session of that version calls
\* router.navigate(['/about']).
C21_RedirectInOneSessionPerVersion ==
    [][(navigateCalls' = navigateCalls + 1) => appVersion \notin decidedIn]_vars

====
